---- MODULE Spec2Model ----
(***************************************************************************)
(* State-machine model of apps/ia/services/rag_service.py (class           *)
(* RAGService): the chunk inventory `documents`, the FAISS index           *)
(* `vector_store`, the embedder chosen at construction, and the public     *)
(* operations add_documents, add_document_from_text, similarity_search,    *)
(* similarity_search_with_score, get_relevant_context,                     *)
(* clear_knowledge_base, get_document_count, save_vector_store and         *)
(* load_vector_store; of the fallback embedder SimpleEmbeddings that       *)
(* _setup_embeddings builds; and of the search tool of                     *)
(* apps/ia/tools/rag_search_tool.py over the service.                      *)
(*                                                                         *)
(* Strings are abstracted to what the service reads of them: whether the   *)
(* value is None, whether it is blank (empty or whitespace only), and for  *)
(* a non-blank string which slice [off, off+len) of which source text it   *)
(* is.  A non-blank text of length n is the whitespace-free string of n    *)
(* characters, so that RecursiveCharacterTextSplitter falls through its    *)
(* separator list to the character-level split; a padded text is such a   *)
(* string between whitespace characters.                                   *)
(***************************************************************************)
EXTENDS Integers, Sequences, FiniteSets, TLC

\* ------------------------------------------------------------------ bounds

\* most chunks the inventory may hold before further adds are cut off
MaxChunks == 2
\* most texts in one add_documents call
MaxBatch == 2
\* most source ids uuid4() hands out in one run
MaxUuid == 1
\* most rows ia_documents is given in one run
MaxDocs == 2

\* ------------------------------------------------------- program constants

chunk_size == 1000
chunk_overlap == 200
\* similarity_search(query, k=5) inside get_relevant_context
context_k == 5
\* len(doc.page_content) // 4
chars_per_token == 4
\* if remaining_chars > 100
min_remaining_chars == 100
\* similarity_search(query, k=3) of the search tool
tool_k == 3
\* search_knowledge_base(query, k=5)
search_k == 5
\* the length of the vectors of either embedder: all-MiniLM-L6-v2 and
\* np.random.normal(0, 1, 384)
embedding_dim == 384

\* ------------------------------------------------------------------ values

\* Python's None passed where a str is expected
NoneText == [kind |-> "None", src |-> 0, off |-> 0, len |-> 0]
\* a string of n whitespace characters ("" for n = 0)
Blank(n) == [kind |-> "blank", src |-> 0, off |-> 0, len |-> n]
\* the whitespace-free text of n characters
Word(n) == [kind |-> "word", src |-> n, off |-> 0, len |-> n]

\* the text of `lead` whitespace characters, the whitespace-free text of n
\* characters, and `trail` whitespace characters: of a padded text, src is
\* the length of the text inside, off the number of leading whitespace
\* characters and len the length of it all
Padded(lead, n, trail) ==
  IF lead = 0 /\ trail = 0 THEN Word(n)
  ELSE [kind |-> "padded", src |-> n, off |-> lead, len |-> lead + n + trail]

\* lengths of the non-blank texts callers upload
WordLens == {55, 1001}
\* the texts callers pass to add_documents
Texts == {NoneText, Blank(0), Blank(2)} \cup {Word(n) : n \in WordLens}
\* texts around the chunk size, bare and padded with whitespace, none
\* longer than a chunk once it is padded
ShortTexts ==
  {NoneText, Blank(0), Blank(2), Word(chunk_size), Word(chunk_size + 1)}
  \cup { Padded(lead, n, trail) :
           lead \in 0..2, n \in {1, 55, chunk_size - 3}, trail \in 0..1 }
\* a caller-supplied metadata mapping
CallerMeta == [source |-> "caller", id |-> 0]
\* {'source': f'doc_{uuid4()}'}, the n-th id uuid4() handed out
GeneratedMeta(n) == [source |-> "doc_uuid", id |-> n]
Metas == {CallerMeta}
\* the metadatas argument: omitted (None) or a list
NoMetadatas == [given |-> FALSE, list |-> <<>>]
GivenMetadatas(l) == [given |-> TRUE, list |-> l]
\* filesystem paths handed to save_vector_store / load_vector_store
Paths == {"p1"}
\* queries: empty, whitespace-only, and two non-blank ones
Queries == {Blank(0), Blank(2), Word(7), Word(8)}
\* values of k, from negative to more than the index can hold
Ks == {-1, 0, 1, 2, 1000}
\* values of max_tokens
MaxTokens == {-1, 0, 25, 26, 60, 100, 2000}

\* the absent index (self.vector_store is None)
NoStore == [present |-> FALSE, docs |-> <<>>, dim |-> 0, embedder |-> "none"]
\* an index file written by a service whose embedder has vectors of another
\* length: one entry, vectors twice as long
ForeignStore ==
  [present |-> TRUE,
   docs |-> << [page_content |->
                  [kind |-> "word", src |-> 7, off |-> 0, len |-> 7],
                metadata |-> [source |-> "foreign", id |-> 0]] >>,
   dim |-> 2 * embedding_dim, embedder |-> "none"]

\* ----------------------------------------------------------- pure helpers

Min(a, b) == IF a <= b THEN a ELSE b
Max(a, b) == IF a >= b THEN a ELSE b

SeqsUpTo(S, n) == UNION {[1..m -> S] : m \in 0..n}

RECURSIVE SumSeq(_)
SumSeq(s) == IF s = <<>> THEN 0 ELSE Head(s) + SumSeq(Tail(s))

\* str(text).strip(): the length of what is left of a str
StripLen(t) ==
  IF t.kind = "blank" THEN 0
  ELSE IF t.kind = "padded" THEN t.src
  ELSE t.len

\* the chunk kept as it is (strip_whitespace=False)
StripKept(t) == t

\* str.strip()
Strip(t) ==
  IF t.kind = "padded" THEN Word(t.src)
  ELSE IF t.kind = "blank" THEN Blank(0)
  ELSE t

\* text[a:b] of a non-blank string, Python slice semantics for 0 <= a
Slice(t, a, b) ==
  LET lo == Min(a, t.len)
      hi == Max(lo, Min(b, t.len))
  IN  [kind |-> t.kind, src |-> t.src, off |-> t.off + lo, len |-> hi - lo]

\* the skip test without .strip(): whitespace-only text passes as valid
IsSkippedNoStrip(t) == t.kind = "None" \/ t.len = 0

\* `text is None or not str(text).strip()`
IsSkipped(t) == t.kind = "None" \/ StripLen(t) = 0

\* ---------------------------------------------------------------- chunker

\* RecursiveCharacterTextSplitter(chunk_size, chunk_overlap).split_text on a
\* whitespace-free text: characters are merged up to chunk_size, a chunk is
\* emitted, and the window keeps its last chunk_overlap characters.
RECURSIVE SplitFrom(_, _)
SplitFrom(t, start) ==
  IF t.len - start <= chunk_size
  THEN << Slice(t, start, t.len) >>
  ELSE << Slice(t, start, start + chunk_size) >>
       \o SplitFrom(t, start + (chunk_size - chunk_overlap))

\* split_text: a text with whitespace at its ends and of at most chunk_size
\* characters is split at the whitespace and merged back into one chunk,
\* which is stripped (strip_whitespace=True)
split_text(t) ==
  CASE t.kind = "padded" /\ t.len <= chunk_size -> << Strip(t) >>
    [] t.kind # "padded" -> SplitFrom(t, 0)

\* text_splitter.split_documents([doc]): every chunk carries doc.metadata
split_documents(doc) ==
  LET parts == split_text(doc.page_content)
  IN  [i \in 1..Len(parts) |->
         [page_content |-> parts[i], metadata |-> doc.metadata]]

\* ------------------------------------------------------ fallback embedder

\* The strings handed to SimpleEmbeddings, as sequences of characters: a
\* lower-case letter, its upper-case form, and a space.
Chars == {"a", "A", " "}
EmbedStrings == { <<>>, << " " >>, << "a" >>, << "A" >>, << " ", "a" >> }

\* the keys str.__hash__ may be given when the process starts
HashSeeds == 0..2

\* str.lower()
LowerChar(c) == IF c = "A" THEN "a" ELSE c
Lower(s) == [j \in 1..Len(s) |-> LowerChar(s[j])]

Abs(n) == IF n < 0 THEN -n ELSE n

\* hash values are signed machine words; the word is 6 bits wide here
HashModulus == 2 ^ 6
\* 2**31 of `abs(hash_val) % (2**31)`, on the scale of the 6-bit word
SeedModulus == 2 ^ 4
\* np.random.seed takes 0 <= seed < 2**32
SeedLimit == 2 * SeedModulus

CharCode(c) == CASE c = "a" -> 1 [] c = "A" -> 2 [] c = " " -> 3

RECURSIVE HashMix(_, _)
HashMix(s, h) ==
  IF s = <<>> THEN h
  ELSE HashMix(Tail(s), (h * 7 + CharCode(Head(s))) % HashModulus)

\* hash(s) of a str: 0 for "", else a signed word that depends on the
\* characters and on the key of the process
PyHash(s, key) ==
  IF s = <<>> THEN 0
  ELSE LET u == HashMix(s, (key * 11 + 5) % HashModulus)
       IN  IF u >= HashModulus \div 2 THEN u - HashModulus ELSE u

\* abs(hash_val) % (2**31)
NumpySeed(hash_val) == Abs(hash_val) % SeedModulus

\* numpy's generator as the interpreter leaves it, seeded from the system
SystemSeeded == [stream |-> -1, drawn |-> 0]

\* _simple_embed without its np.random.seed call
NotSeeded(state, n) == state

\* np.random.seed(n): the generator restarts the stream of seed n
Seeded(state, n) == [stream |-> n, drawn |-> 0]

\* np.random.normal(0, 1, size).tolist(): the next `size` samples of the
\* stream, named by where in which stream they start
Normal(state, size) ==
  [stream |-> state.stream, from |-> state.drawn, dim |-> size]
\* the generator after it gave `size` samples
Advanced(state, size) == [state EXCEPT !.drawn = @ + size]

NoVector == [stream |-> -2, from |-> 0, dim |-> 0]

NoEmbedCall == [op |-> "none", texts |-> <<>>, vectors |-> <<>>,
                raised |-> "none"]

\* ------------------------------------------------------ controller values

\* the threads that may be inside one RAGService at a time
Threads == {1, 2}

\* a mapping is a function of its keys; a mapping argument is None or one
EmptyMapping == [key \in {} |-> 0]
NoMapping == [none |-> TRUE, map |-> EmptyMapping]
GivenMapping(m) == [none |-> FALSE, map |-> m]

\* the json_metadata a caller of upload_document supplies
CallerMappings ==
  { NoMapping, GivenMapping(EmptyMapping),
    GivenMapping([source |-> << "caller", 0 >>]),
    GivenMapping([lang |-> << "pt", 0 >>]) }

\* the txt_content the upload schema lets through: min_length = 1
UploadTexts == {Blank(2)} \cup {Word(n) : n \in WordLens}

\* ----------------------------------------------------------------- state

VARIABLES
  embeddings,      \* self.embeddings: "primary" (HuggingFace) or "fallback"
  documents,       \* self.documents: the chunk inventory
  vector_store,    \* self.vector_store: NoStore or the FAISS index's entries
  disk,            \* what save_local left at each path
  next_uuid,       \* how many ids uuid4() has handed out
  call,            \* the last call: operation, arguments, outcome
  ret,             \* what the last similarity search returned
  context,         \* the segments get_relevant_context joined and returned
  pc,              \* "idle", inside get_relevant_context, or "return"
  docs,            \* get_relevant_context: the hits being consumed
  i,               \* get_relevant_context: index of the next hit
  context_parts,   \* get_relevant_context: accepted segments
  current_tokens,  \* get_relevant_context: running token estimate
  index_epoch,     \* "fresh" since construction, "cleared" since a clear,
                   \* "filled" once an add or a load has set the index
  pre,             \* documents, vector_store and disk as the last call
                   \* found them
  hash_seed,       \* the key of str.__hash__, drawn when the process starts
  np_random,       \* numpy's global generator: its seed and how far it ran
  first_vector,    \* per string, the vector the fallback embedder gave first
  embed_call,      \* the last call of the fallback embedder and its outcome
  db,              \* the rows of ia_documents, in the order they were added
  next_doc_id,     \* the last primary key ia_documents handed out
  db_pre,          \* ia_documents as the last request found it
  json_metadata,   \* document_data.json_metadata, the caller's object, as
                   \* the last upload left it
  request,         \* the last request a controller served and its outcome
  threads          \* per thread inside the service: its call and position

service_vars == << embeddings, documents, vector_store, disk, next_uuid, call,
                   ret, context, pc, docs, i, context_parts, current_tokens,
                   index_epoch, pre >>
embedder_vars == << hash_seed, np_random, first_vector, embed_call >>
controller_vars == << db, next_doc_id, db_pre, json_metadata, request >>
outside_service == << embedder_vars, controller_vars, threads >>
vars == << service_vars, embedder_vars, controller_vars, threads >>

kb == << documents, vector_store >>
grc_locals == << docs, i, context_parts, current_tokens >>

\* the record of a call; fields an operation does not take keep these values
NoCall ==
  [op |-> "__init__", texts |-> <<>>, metadatas |-> NoMetadatas,
   query |-> Blank(0), k |-> 0, max_tokens |-> 0, path |-> "",
   raised |-> "none", logged |-> "none", backend |-> FALSE]

\* no request served yet; fields a request does not take keep these values
NoRequest ==
  [op |-> "none", text |-> NoneText, json_metadata |-> NoMapping,
   document_id |-> 0, passed |-> EmptyMapping, raised |-> "none"]

\* a thread outside every call of the service
NoThread ==
  [pc |-> "idle", op |-> "none", chunked_docs |-> <<>>, logged |-> "none"]

\* whether the embedding backend may raise in a call: only the primary one
Faults == IF embeddings = "primary" THEN BOOLEAN ELSE {FALSE}

\* __init__ but for the embedder: no chunk, no index, and `file` at every
\* path of the filesystem; an empty ia_documents table, no request served
\* and no thread inside the service
InitKnowledgeBase(file) ==
  /\ documents = <<>>
  /\ vector_store = NoStore
  /\ disk = [p \in Paths |-> file]
  /\ next_uuid = 0
  /\ call = NoCall
  /\ ret = <<>>
  /\ context = <<>>
  /\ pc = "idle"
  /\ docs = <<>>
  /\ i = 1
  /\ context_parts = <<>>
  /\ current_tokens = 0
  /\ index_epoch = "fresh"
  /\ pre = [documents |-> <<>>, vector_store |-> NoStore,
            disk |-> [p \in Paths |-> file]]
  /\ db = <<>>
  /\ next_doc_id = 0
  /\ db_pre = <<>>
  /\ json_metadata = NoMapping
  /\ request = NoRequest
  /\ threads = [t \in Threads |-> NoThread]

\* the process as the interpreter starts it: a hash key of `keys`, numpy's
\* generator seeded from the system, nothing embedded yet
InitEmbedder(keys) ==
  /\ hash_seed \in keys
  /\ np_random = SystemSeeded
  /\ first_vector = [s \in EmbedStrings |-> NoVector]
  /\ embed_call = NoEmbedCall

Init ==
  /\ embeddings \in {"primary", "fallback"}
  /\ InitKnowledgeBase(NoStore)
  /\ InitEmbedder({0})

\* the knowledge base as a call finds it
Snapshot ==
  [documents |-> documents, vector_store |-> vector_store, disk |-> disk]

\* FAISS.from_documents(d, self.embeddings): an index over the entries d,
\* of the embedder's vector length, holding the embedder for its queries
Store(d) ==
  [present |-> TRUE, docs |-> d, dim |-> embedding_dim,
   embedder |-> embeddings]

\* index.add / index.search assert that the vectors they are given have
\* the index's length
IndexRejects(store) == store.present /\ store.dim # embedding_dim

\* get_document_count(): len(self.documents)
get_document_count == Len(documents)

\* ---------------------------------------------------------- add_documents

\* metadatas, or one {'source': f'doc_{uuid4()}'} per text when omitted;
\* uuid0 ids were handed out before
EffectiveMetadatas(texts, metadatas, uuid0) ==
  IF metadatas.given
  THEN metadatas.list
  ELSE [n \in 1..Len(texts) |-> GeneratedMeta(uuid0 + n)]

\* zip(texts, metadatas, strict=True) raises ValueError on unequal lengths
ZipRaises(texts, metas) == Len(texts) # Len(metas)

\* the loop leaving at the first skipped text (break for continue)
RECURSIVE ValidDocsUntilBad(_, _)
ValidDocsUntilBad(texts, metas) ==
  IF texts = <<>> \/ metas = <<>> \/ IsSkipped(Head(texts))
  THEN <<>>
  ELSE << [page_content |-> Head(texts), metadata |-> Head(metas)] >>
       \o ValidDocsUntilBad(Tail(texts), Tail(metas))

\* the loop over zip(texts, metadatas): the Documents of the texts kept
RECURSIVE ValidDocs(_, _)
ValidDocs(texts, metas) ==
  IF texts = <<>> \/ metas = <<>>
  THEN <<>>
  ELSE IF IsSkipped(Head(texts))
       THEN ValidDocs(Tail(texts), Tail(metas))
       ELSE << [page_content |-> Head(texts), metadata |-> Head(metas)] >>
            \o ValidDocs(Tail(texts), Tail(metas))

\* the inventory fed the documents themselves, unsplit
ChunkAllUnsplit(ds) == ds

\* chunked_docs: the chunks of every kept document, in order
RECURSIVE ChunkAll(_)
ChunkAll(ds) ==
  IF ds = <<>> THEN <<>>
  ELSE split_documents(Head(ds)) \o ChunkAll(Tail(ds))

\* FAISS.from_documents(chunked_docs, embeddings) when the index is absent,
\* vector_store.add_documents(chunked_docs) otherwise
InsertedStore(store, chunked_docs) ==
  IF ~store.present
  THEN Store(chunked_docs)
  ELSE [store EXCEPT !.docs = @ \o chunked_docs]

\* the inventory set to the new chunks, those it held dropped
ReplacedInventory(ds, chunked_docs) == chunked_docs

\* self.documents.extend(chunked_docs)
ExtendedInventory(ds, chunked_docs) == ds \o chunked_docs

\* The body of add_documents(texts, metadatas): its effect on the knowledge
\* base and what it logs.  Nothing it raises leaves the method (except
\* Exception: logger.error).  `entry` is the call as the caller made it.
add_documents_body(texts, metadatas, fault, uuid0, entry) ==
  LET metas == EffectiveMetadatas(texts, metadatas, uuid0)
      valid_docs == ValidDocs(texts, metas)
      chunked_docs == ChunkAll(valid_docs)
      done(logged, backend) ==
        call' = [entry EXCEPT !.logged = logged, !.backend = backend]
  IN  /\ next_uuid' = IF metadatas.given THEN uuid0 ELSE uuid0 + Len(texts)
      /\ IF ZipRaises(texts, metas)
         THEN /\ done("ValueError", FALSE)
              /\ UNCHANGED << kb, index_epoch >>
         ELSE IF valid_docs = <<>>
         THEN /\ done("none", FALSE)
              /\ UNCHANGED << kb, index_epoch >>
         ELSE /\ Len(documents) + Len(chunked_docs) <= MaxChunks
              /\ Len(vector_store.docs) + Len(chunked_docs) <= MaxChunks
              /\ documents' = ExtendedInventory(documents, chunked_docs)
              /\ IF fault
                 THEN /\ done("BackendError", TRUE)
                      /\ UNCHANGED << vector_store, index_epoch >>
                 ELSE IF IndexRejects(vector_store)
                 THEN /\ done("AssertionError", TRUE)
                      /\ UNCHANGED << vector_store, index_epoch >>
                 ELSE /\ done("none", TRUE)
                      /\ vector_store' = InsertedStore(vector_store, chunked_docs)
                      /\ index_epoch' = "filled"

add_documents ==
  /\ pc = "idle"
  /\ pre' = Snapshot
  /\ \E texts \in SeqsUpTo(Texts, MaxBatch),
        metadatas \in {NoMetadatas}
                      \cup {GivenMetadatas(l) : l \in SeqsUpTo(Metas, MaxBatch)},
        fault \in Faults :
       /\ ~metadatas.given => next_uuid + Len(texts) <= MaxUuid
       /\ add_documents_body(texts, metadatas, fault, next_uuid,
            [NoCall EXCEPT !.op = "add_documents", !.texts = texts,
                           !.metadatas = metadatas])
  /\ pc' = "return"
  /\ UNCHANGED << embeddings, disk, ret, context, grc_locals >>
  /\ UNCHANGED outside_service

\* add_document_from_text that generates a mapping whatever it was given
FromTextMetadataAlwaysNew(metadata, uuid0) == GeneratedMeta(uuid0)

\* if metadata is None: metadata = {'source': f'doc_{uuid4()}'}
FromTextMetadata(metadata, uuid0) ==
  IF metadata.given THEN metadata.list[1] ELSE GeneratedMeta(uuid0)

\* add_document_from_text(text, metadata): a missing metadata is generated
\* here, then self.add_documents([text], [metadata])
add_document_from_text_body(text, metadata, fault) ==
  LET uuid0 == IF metadata.given THEN next_uuid ELSE next_uuid + 1
      md == FromTextMetadata(metadata, uuid0)
  IN  /\ uuid0 <= MaxUuid
      /\ add_documents_body(<< text >>, GivenMetadatas(<< md >>), fault,
           uuid0,
           [NoCall EXCEPT !.op = "add_document_from_text",
                          !.texts = << text >>, !.metadatas = metadata])

add_document_from_text ==
  /\ pc = "idle"
  /\ pre' = Snapshot
  /\ \E text \in Texts,
        metadata \in {NoMetadatas} \cup {GivenMetadatas(<< m >>) : m \in Metas},
        fault \in Faults :
       add_document_from_text_body(text, metadata, fault)
  /\ pc' = "return"
  /\ UNCHANGED << embeddings, disk, ret, context, grc_locals >>
  /\ UNCHANGED outside_service

\* add_document_from_text called with the texts around the chunk size
add_short_text ==
  /\ pc = "idle"
  /\ pre' = Snapshot
  /\ \E text \in ShortTexts,
        metadata \in {NoMetadatas} \cup {GivenMetadatas(<< m >>) : m \in Metas},
        fault \in Faults :
       add_document_from_text_body(text, metadata, fault)
  /\ pc' = "return"
  /\ UNCHANGED << embeddings, disk, ret, context, grc_locals >>
  /\ UNCHANGED outside_service

\* ------------------------------------------------------ similarity search

\* The embedder, of which the index reads only the distances it induces: a
\* deterministic function of the text, abstracted to a point on a line.
Embed(s) == (s.off + s.len) % 3

\* the L2 distance FAISS ranks by
Dist(q, s) == (Embed(q) - Embed(s)) * (Embed(q) - Embed(s))

\* FAISS's search over the entries ds: min(k, len(ds)) distinct entries, by
\* non-decreasing distance to the query, none farther than an entry left
\* out.  Which of several equidistant entries comes first is FAISS's choice.
FaissRankings(ds, q, k) ==
  LET n == Len(ds)
      m == Min(k, n)
      d(j) == Dist(q, ds[j].page_content)
  IN  { p \in [1..m -> 1..n] :
          /\ \A a, b \in 1..m : a < b => p[a] # p[b] /\ d(p[a]) <= d(p[b])
          /\ \A j \in 1..n :
               (\A a \in 1..m : p[a] # j) => \A a \in 1..m : d(p[a]) <= d(j) }

\* the early return without its test of k
ReturnsEmptyEarlyAnyK(q, k) == ~vector_store.present \/ StripLen(q) = 0

\* `self.vector_store is None or not query.strip() or k <= 0`
ReturnsEmptyEarly(q, k) ==
  ~vector_store.present \/ StripLen(q) = 0 \/ k <= 0

\* The outcomes of self.similarity_search(q, k): what is returned, whether
\* the embedder and the index were used, and what is raised.
SearchOutcomes(q, k, fault) ==
  IF vector_store.present /\ q.kind = "None"
  THEN { [hits |-> <<>>, backend |-> FALSE, raised |-> "AttributeError"] }
  ELSE IF ReturnsEmptyEarly(q, k)
  THEN { [hits |-> <<>>, backend |-> FALSE, raised |-> "none"] }
  ELSE IF fault
  THEN { [hits |-> <<>>, backend |-> TRUE, raised |-> "BackendError"] }
  ELSE IF IndexRejects(vector_store)
  THEN { [hits |-> <<>>, backend |-> TRUE, raised |-> "AssertionError"] }
  ELSE { [hits |-> [j \in 1..Len(p) |-> vector_store.docs[p[j]]],
          backend |-> TRUE, raised |-> "none"] :
         p \in FaissRankings(vector_store.docs, q, k) }

similarity_search ==
  /\ pc = "idle"
  /\ pre' = Snapshot
  /\ \E q \in Queries, k \in Ks, fault \in Faults :
       \E o \in SearchOutcomes(q, k, fault) :
         /\ ret' = o.hits
         /\ call' = [NoCall EXCEPT !.op = "similarity_search", !.query = q,
                                   !.k = k, !.backend = o.backend,
                                   !.raised = o.raised]
  /\ pc' = "return"
  /\ UNCHANGED << embeddings, kb, disk, next_uuid, context, grc_locals,
                  index_epoch >>
  /\ UNCHANGED outside_service

\* as similarity_search, each hit paired with its distance
similarity_search_with_score ==
  /\ pc = "idle"
  /\ pre' = Snapshot
  /\ \E q \in Queries, k \in Ks, fault \in Faults :
       \E o \in SearchOutcomes(q, k, fault) :
         /\ ret' = [j \in 1..Len(o.hits) |->
                      [doc |-> o.hits[j],
                       score |-> Dist(q, o.hits[j].page_content)]]
         /\ call' = [NoCall EXCEPT !.op = "similarity_search_with_score",
                                   !.query = q, !.k = k,
                                   !.backend = o.backend, !.raised = o.raised]
  /\ pc' = "return"
  /\ UNCHANGED << embeddings, kb, disk, next_uuid, context, grc_locals,
                  index_epoch >>
  /\ UNCHANGED outside_service

\* --------------------------------------------------- get_relevant_context

\* len(text) // 4
Tokens(s) == s.len \div chars_per_token

\* the budget test that forgets the hit being added
FitsBeforeAdding(tokens, doc_tokens, max_tokens) == tokens <= max_tokens

\* `current_tokens + doc_tokens <= max_tokens`
Fits(tokens, doc_tokens, max_tokens) == tokens + doc_tokens <= max_tokens

\* the threshold test turned round: a prefix only when little room is left
RoomForPrefixInverted(remaining_chars) ==
  remaining_chars < min_remaining_chars

\* the threshold test with >= for >
RoomForPrefixInclusive(remaining_chars) ==
  remaining_chars >= min_remaining_chars

\* `remaining_chars > 100`
RoomForPrefix(remaining_chars) == remaining_chars > min_remaining_chars

\* the overflowing hit appended whole, untruncated
WholeContent(content, remaining_chars) == content

\* doc.page_content[:remaining_chars]
TruncatedPrefix(content, remaining_chars) == Slice(content, 0, remaining_chars)

\* docs = self.similarity_search(query, k=5); an exception of the search
\* leaves get_relevant_context too
get_relevant_context ==
  /\ pc = "idle"
  /\ pre' = Snapshot
  /\ \E q \in Queries, max_tokens \in MaxTokens, fault \in Faults :
       \E o \in SearchOutcomes(q, context_k, fault) :
         /\ call' = [NoCall EXCEPT !.op = "get_relevant_context",
                                   !.query = q, !.k = context_k,
                                   !.max_tokens = max_tokens,
                                   !.backend = o.backend, !.raised = o.raised]
         /\ docs' = o.hits
         /\ pc' = IF o.raised = "none" THEN "grc_loop" ELSE "return"
  /\ i' = 1
  /\ context_parts' = <<>>
  /\ current_tokens' = 0
  /\ UNCHANGED << embeddings, kb, disk, next_uuid, ret, context, index_epoch >>
  /\ UNCHANGED outside_service

\* one turn of `for doc in docs`
grc_iter ==
  /\ pc = "grc_loop"
  /\ IF i > Len(docs)
     THEN /\ pc' = "grc_join"
          /\ UNCHANGED << i, context_parts, current_tokens >>
     ELSE LET doc == docs[i]
              doc_tokens == Tokens(doc.page_content)
              remaining_chars ==
                (call.max_tokens - current_tokens) * chars_per_token
          IN  IF Fits(current_tokens, doc_tokens, call.max_tokens)
              THEN /\ context_parts' = Append(context_parts, doc.page_content)
                   /\ current_tokens' = current_tokens + doc_tokens
                   /\ i' = i + 1
                   /\ pc' = "grc_loop"
              ELSE /\ context_parts' =
                        IF RoomForPrefix(remaining_chars)
                        THEN Append(context_parts,
                                    TruncatedPrefix(doc.page_content,
                                                    remaining_chars))
                        ELSE context_parts
                   /\ pc' = "grc_join"
                   /\ UNCHANGED << i, current_tokens >>
  /\ UNCHANGED << embeddings, kb, disk, next_uuid, call, ret, context, docs,
                  index_epoch, pre >>
  /\ UNCHANGED outside_service

\* len('\n\n'.join(parts))
JoinLen(parts) ==
  IF parts = <<>> THEN 0
  ELSE SumSeq([j \in 1..Len(parts) |-> parts[j].len]) + 2 * (Len(parts) - 1)

\* The loop of get_relevant_context run to its end over the hits hs from
\* hit j on, with the segments and the token estimate accumulated so far:
\* the context_parts it leaves.
RECURSIVE ContextPartsFrom(_, _, _, _, _)
ContextPartsFrom(hs, j, parts, tokens, max_tokens) ==
  IF j > Len(hs) THEN parts
  ELSE LET content == hs[j].page_content
           doc_tokens == Tokens(content)
           remaining_chars == (max_tokens - tokens) * chars_per_token
       IN  IF Fits(tokens, doc_tokens, max_tokens)
           THEN ContextPartsFrom(hs, j + 1, Append(parts, content),
                                 tokens + doc_tokens, max_tokens)
           ELSE IF RoomForPrefix(remaining_chars)
           THEN Append(parts, TruncatedPrefix(content, remaining_chars))
           ELSE parts

\* return '\n\n'.join(context_parts)
grc_join ==
  /\ pc = "grc_join"
  /\ context' = context_parts
  /\ pc' = "return"
  /\ UNCHANGED << embeddings, kb, disk, next_uuid, call, ret, grc_locals,
                  index_epoch, pre >>
  /\ UNCHANGED outside_service

\* ------------------------------------------------------------ persistence

\* save_local(path) writes the index and its entries, not the embedder
SavedStore(store) == [store EXCEPT !.embedder = "none"]

\* load that builds an embedder of its own for the index it reads
LoadedStoreOwnEmbedder(path) == [disk[path] EXCEPT !.embedder = "fallback"]

\* FAISS.load_local(path, self.embeddings, ...)
LoadedStore(path) == [disk[path] EXCEPT !.embedder = embeddings]

\* if self.vector_store is not None: self.vector_store.save_local(path)
save_vector_store ==
  /\ pc = "idle"
  /\ pre' = Snapshot
  /\ \E path \in Paths :
       /\ disk' = IF vector_store.present
                  THEN [disk EXCEPT ![path] = SavedStore(vector_store)]
                  ELSE disk
       /\ call' = [NoCall EXCEPT !.op = "save_vector_store", !.path = path]
  /\ pc' = "return"
  /\ UNCHANGED << embeddings, kb, next_uuid, ret, context, grc_locals,
                  index_epoch >>
  /\ UNCHANGED outside_service

\* load that does not look whether the path exists
PathExistsAlways(path) == TRUE

\* os.path.exists(path)
PathExists(path) == disk[path].present

\* if os.path.exists(path): self.vector_store = FAISS.load_local(path, ...)
load_vector_store ==
  /\ pc = "idle"
  /\ pre' = Snapshot
  /\ \E path \in Paths :
       /\ IF PathExists(path)
          THEN /\ vector_store' = LoadedStore(path)
               /\ index_epoch' = "filled"
          ELSE UNCHANGED << vector_store, index_epoch >>
       /\ call' = [NoCall EXCEPT !.op = "load_vector_store", !.path = path]
  /\ pc' = "return"
  /\ UNCHANGED << embeddings, documents, disk, next_uuid, ret, context,
                  grc_locals >>
  /\ UNCHANGED outside_service

\* ------------------------------------------------- clear_knowledge_base

\* clear() that empties the inventory and keeps the index
ClearedStoreKept == vector_store

\* self.vector_store = None
ClearedStore == NoStore

clear_knowledge_base ==
  /\ pc = "idle"
  /\ pre' = Snapshot
  /\ documents' = <<>>
  /\ vector_store' = ClearedStore
  /\ index_epoch' = "cleared"
  /\ call' = [NoCall EXCEPT !.op = "clear_knowledge_base"]
  /\ pc' = "return"
  /\ UNCHANGED << embeddings, disk, next_uuid, ret, context, grc_locals >>
  /\ UNCHANGED outside_service

\* ---------------------------------------------------------------- caller

\* The call returns (or its exception reaches the caller), and the caller,
\* having seen the outcome, is free to make its next call.
Return ==
  /\ pc = "return"
  /\ pc' = "idle"
  /\ call' = NoCall
  /\ ret' = <<>>
  /\ context' = <<>>
  /\ docs' = <<>>
  /\ i' = 1
  /\ context_parts' = <<>>
  /\ current_tokens' = 0
  /\ pre' = Snapshot
  /\ db_pre' = db
  /\ json_metadata' = NoMapping
  /\ request' = NoRequest
  /\ UNCHANGED << embeddings, kb, disk, next_uuid, index_epoch >>
  /\ UNCHANGED << embedder_vars, db, next_doc_id, threads >>

Next ==
  \/ add_documents
  \/ add_document_from_text
  \/ similarity_search
  \/ similarity_search_with_score
  \/ get_relevant_context
  \/ grc_iter
  \/ grc_join
  \/ clear_knowledge_base
  \/ save_vector_store
  \/ load_vector_store
  \/ Return

Spec == Init /\ [][Next]_vars

\* The service started where an index file of another vector length lies
\* at the path.
InitForeignIndex ==
  /\ embeddings \in {"primary", "fallback"}
  /\ InitKnowledgeBase(ForeignStore)
  /\ InitEmbedder({0})

SpecForeignIndex == InitForeignIndex /\ [][Next]_vars

\* ------------------------------------------------------------- search tool

\* what a query of the agent may be: a str, or None where a str is expected
ToolQueries == Queries \cup {NoneText}

\* f'Erro ao buscar na base de conhecimento: {str(e)}'
ErrorMessage(e) == [kind |-> "Erro ao buscar", message |-> e, parts |-> <<>>]
\* 'Nenhuma informação relevante encontrada na base de conhecimento.'
NoInformation ==
  [kind |-> "Nenhuma informacao", message |-> "none", parts |-> <<>>]
\* '\n\n'.join(f'Fonte {i} ({source}):\n{content}' ...)
Formatted(hits) ==
  [kind |-> "Fontes", message |-> "none",
   parts |-> [j \in 1..Len(hits) |->
                [fonte |-> j, source |-> hits[j].metadata.source,
                 content |-> hits[j].page_content]]]

\* the body of the tool without `if not docs`
ToolResultWithoutEmptyTest(o) ==
  IF o.raised # "none" THEN ErrorMessage(o.raised) ELSE Formatted(o.hits)

\* The body of rag_search_function and of RAGSearchTool.search past the
\* search, whose outcome is o: except Exception, `if not docs`, formatting.
ToolResult(o) ==
  IF o.raised # "none" THEN ErrorMessage(o.raised)
  ELSE IF o.hits = <<>> THEN NoInformation
  ELSE Formatted(o.hits)

\* RAGService() then similarity_search on it: a service built for the call,
\* with no index of its own, unless its construction raises
FreshServiceOutcomes(q, construct_fault) ==
  IF construct_fault
  THEN { [hits |-> <<>>, backend |-> FALSE, raised |-> "ConstructionError"] }
  ELSE { [hits |-> <<>>, backend |-> FALSE, raised |-> "none"] }

\* rag_search_function(query)
rag_search_function ==
  /\ pc = "idle"
  /\ pre' = Snapshot
  /\ \E q \in ToolQueries, construct_fault \in BOOLEAN :
       \E o \in FreshServiceOutcomes(q, construct_fault) :
         /\ docs' = o.hits
         /\ ret' = ToolResult(o)
         /\ call' = [NoCall EXCEPT !.op = "rag_search_function", !.query = q,
                                   !.k = tool_k, !.backend = o.backend,
                                   !.logged = o.raised]
  /\ pc' = "return"
  /\ UNCHANGED << embeddings, kb, disk, next_uuid, context, i, context_parts,
                  current_tokens, index_epoch >>
  /\ UNCHANGED outside_service

\* RAGSearchTool(rag_service).search(query)
RAGSearchTool_search ==
  /\ pc = "idle"
  /\ pre' = Snapshot
  /\ \E q \in ToolQueries, fault \in Faults :
       \E o \in SearchOutcomes(q, tool_k, fault) :
         /\ docs' = o.hits
         /\ ret' = ToolResult(o)
         /\ call' = [NoCall EXCEPT !.op = "RAGSearchTool.search", !.query = q,
                                   !.k = tool_k, !.backend = o.backend,
                                   !.logged = o.raised]
  /\ pc' = "return"
  /\ UNCHANGED << embeddings, kb, disk, next_uuid, context, i, context_parts,
                  current_tokens, index_epoch >>
  /\ UNCHANGED outside_service

\* ConversationAgent._setup_agent: tools=[rag_search_tool], the module's
\* function tool, which returns rag_search_function(query); the
\* RAGSearchTool the agent builds over its own service is not among them
AgentTools == {"rag_search_function"}

\* The agent's tools over a service that documents are added to
\* (add_knowledge) and that is cleared (clear_knowledge).
NextTool ==
  \/ add_document_from_text
  \/ clear_knowledge_base
  \/ rag_search_function
  \/ RAGSearchTool_search
  \/ Return

SpecTool == Init /\ [][NextTool]_vars

\* ------------------------------------------------------- chunking of texts

\* A service given texts around the chunk size, bare and padded, and
\* cleared.
NextChunker ==
  \/ add_short_text
  \/ clear_knowledge_base
  \/ Return

SpecChunker == Init /\ [][NextChunker]_vars

\* ------------------------------------------------ fallback embedder calls

\* SimpleEmbeddings._simple_embed(text) run on the generator state `state`:
\* the vector, the generator after it, and what np.random.seed raised
simple_embed(text, state) ==
  LET hash_val == PyHash(Lower(text), hash_seed)
      seed == NumpySeed(hash_val)
      seeded == Seeded(state, seed)
  IN  IF seed < 0 \/ seed >= SeedLimit
      THEN [vector |-> NoVector, state |-> state, raised |-> "ValueError"]
      ELSE [vector |-> Normal(seeded, embedding_dim),
            state |-> Advanced(seeded, embedding_dim), raised |-> "none"]

\* [self._simple_embed(text) for text in texts]
RECURSIVE EmbedEach(_, _)
EmbedEach(texts, state) ==
  IF texts = <<>>
  THEN [vectors |-> <<>>, state |-> state, raised |-> "none"]
  ELSE LET r == simple_embed(Head(texts), state)
           rest == EmbedEach(Tail(texts), r.state)
       IN  IF r.raised # "none"
           THEN [vectors |-> <<>>, state |-> r.state, raised |-> r.raised]
           ELSE [vectors |-> IF rest.raised = "none"
                             THEN << r.vector >> \o rest.vectors ELSE <<>>,
                 state |-> rest.state, raised |-> rest.raised]

\* the first vector of every string, the vectors of this call included
Remembered(texts, vectors) ==
  [s \in EmbedStrings |->
     IF first_vector[s] # NoVector THEN first_vector[s]
     ELSE LET at == { j \in 1..Len(vectors) : texts[j] = s }
          IN  IF at = {} THEN NoVector
              ELSE vectors[CHOOSE j \in at : \A m \in at : j <= m]]

\* SimpleEmbeddings.embed_query(text)
embed_query ==
  /\ \E text \in EmbedStrings :
       LET r == simple_embed(text, np_random)
           vectors == IF r.raised = "none" THEN << r.vector >> ELSE <<>>
       IN  /\ np_random' = r.state
           /\ embed_call' = [op |-> "embed_query", texts |-> << text >>,
                             vectors |-> vectors, raised |-> r.raised]
           /\ first_vector' = Remembered(<< text >>, vectors)
  /\ UNCHANGED << service_vars, hash_seed, controller_vars, threads >>

\* SimpleEmbeddings.embed_documents(texts)
embed_documents ==
  /\ \E texts \in SeqsUpTo(EmbedStrings, MaxBatch) :
       LET r == EmbedEach(texts, np_random)
       IN  /\ np_random' = r.state
           /\ embed_call' = [op |-> "embed_documents", texts |-> texts,
                             vectors |-> r.vectors, raised |-> r.raised]
           /\ first_vector' = Remembered(texts, r.vectors)
  /\ UNCHANGED << service_vars, hash_seed, controller_vars, threads >>

\* A service whose primary backend could not be built, in a process of any
\* hash key, and the calls FAISS makes of its embedder.
InitFallback ==
  /\ embeddings = "fallback"
  /\ InitKnowledgeBase(NoStore)
  /\ InitEmbedder(HashSeeds)

NextEmbedder == embed_query \/ embed_documents

SpecEmbedder == InitFallback /\ [][NextEmbedder]_vars

\* ---------------------------------------------------- document controller

\* DocController holds one RAGService for all its requests; upload_document
\* of ChatController runs the same steps on the service of its controller.

\* hashlib.sha256(txt_content.encode('utf-8')).hexdigest(): a digest that
\* differs between the texts told apart here
content_hash(txt_content) ==
  << "sha256", txt_content.kind, txt_content.src, txt_content.off,
     txt_content.len >>

\* the query for a stored document of this hash finding none
ExistingDocNever(rows, hash) == FALSE

\* session.query(Document).filter(str_content_hash == content_hash).first()
\* is not None
ExistingDoc(rows, hash) ==
  \E j \in 1..Len(rows) : rows[j].str_content_hash = hash

\* Document(...) as session.add and the first commit store it: the next
\* primary key, status 'active', dt_processed_at unset
NewDocument(txt_content) ==
  [id |-> next_doc_id + 1, txt_content |-> txt_content,
   str_content_hash |-> content_hash(txt_content), str_status |-> "active",
   dt_processed_at |-> FALSE]

\* dict.update: the keys of both, those of `changes` with their new values
Update(mapping, changes) ==
  [key \in DOMAIN mapping \cup DOMAIN changes |->
     IF key \in DOMAIN changes THEN changes[key] ELSE mapping[key]]

\* whether `document_data.json_metadata or {}` is the caller's own object:
\* None and an empty mapping are falsy and give a new mapping
IsCallersObject(jm) == ~jm.none /\ DOMAIN jm.map # {}

\* metadata = document_data.json_metadata or {}
OrEmpty(jm) == IF IsCallersObject(jm) THEN jm.map ELSE EmptyMapping

\* the keys upload_document sets on the mapping: doc_id, title and source
DocumentKeys(document) ==
  [doc_id |-> << "id", document.id >>,
   title |-> << "str_title", document.id >>,
   source |-> << "document", document.id >>]

\* upload_document(session, document_data, current_user, request_ip): the
\* duplicate test, the row and its commit, the mapping, the ingestion, then
\* dt_processed_at and the second commit
upload_document ==
  /\ pc = "idle"
  /\ pre' = Snapshot
  /\ db_pre' = db
  /\ \E txt_content \in UploadTexts, jm \in CallerMappings, fault \in Faults :
       LET document == NewDocument(txt_content)
           metadata == Update(OrEmpty(jm), DocumentKeys(document))
           req == [NoRequest EXCEPT !.op = "upload_document",
                                    !.text = txt_content,
                                    !.json_metadata = jm]
       IN  IF ExistingDoc(db, document.str_content_hash)
           THEN /\ request' = [req EXCEPT !.raised = "ValueError"]
                /\ json_metadata' = jm
                /\ call' = NoCall
                /\ UNCHANGED << db, next_doc_id, kb, index_epoch, next_uuid >>
           ELSE /\ next_doc_id < MaxDocs
                /\ next_doc_id' = document.id
                /\ json_metadata' = IF IsCallersObject(jm)
                                    THEN GivenMapping(metadata) ELSE jm
                /\ add_document_from_text_body(txt_content,
                     GivenMetadatas(<< metadata >>), fault)
                /\ db' = Append(db,
                           [document EXCEPT
                              !.dt_processed_at = (call'.raised = "none")])
                /\ request' = [req EXCEPT !.document_id = document.id,
                                          !.passed = metadata,
                                          !.raised = call'.raised]
  /\ pc' = "return"
  /\ UNCHANGED << embeddings, disk, ret, context, grc_locals >>
  /\ UNCHANGED << embedder_vars, threads >>

\* search_knowledge_base(query, k): the hits of similarity_search, each
\* with its content and metadata
search_knowledge_base ==
  /\ pc = "idle"
  /\ pre' = Snapshot
  /\ db_pre' = db
  /\ \E query \in {Word(7), Word(8)}, k \in {1, search_k}, fault \in Faults :
       \E o \in SearchOutcomes(query, k, fault) :
         /\ ret' = o.hits
         /\ call' = [NoCall EXCEPT !.op = "similarity_search",
                                   !.query = query, !.k = k,
                                   !.backend = o.backend,
                                   !.raised = o.raised]
         /\ request' = [NoRequest EXCEPT !.op = "search_knowledge_base",
                                         !.text = query,
                                         !.raised = o.raised]
  /\ json_metadata' = NoMapping
  /\ pc' = "return"
  /\ UNCHANGED << embeddings, kb, disk, next_uuid, context, grc_locals,
                  index_epoch >>
  /\ UNCHANGED << embedder_vars, db, next_doc_id, threads >>

\* GenericController.get(session, document_id) finding a row
GenericGetFinds(rows, document_id) ==
  \E j \in 1..Len(rows) : rows[j].id = document_id

\* GenericController.delete(session, document_id): the row is removed
GenericDelete(rows, document_id) ==
  LET Kept(row) == row.id # document_id
  IN  SelectSeq(rows, Kept)

\* delete_document(session, document_id): get the row, mark a processed
\* one 'deleted', then delete it; no statement of it names self.rag_service
delete_document ==
  /\ pc = "idle"
  /\ pre' = Snapshot
  /\ db_pre' = db
  /\ \E document_id \in 1..MaxDocs :
       LET req == [NoRequest EXCEPT !.op = "delete_document",
                                    !.document_id = document_id]
       IN  IF ~GenericGetFinds(db, document_id)
           THEN /\ request' = [req EXCEPT !.raised = "NotFound"]
                /\ UNCHANGED db
           ELSE /\ request' = req
                /\ db' = GenericDelete(db, document_id)
  /\ call' = NoCall
  /\ json_metadata' = NoMapping
  /\ pc' = "return"
  /\ UNCHANGED << embeddings, kb, disk, next_uuid, ret, context, grc_locals,
                  index_epoch, next_doc_id >>
  /\ UNCHANGED << embedder_vars, threads >>

\* The requests the documents router hands its one DocController, one at a
\* time, and the service's clear between them.
NextController ==
  \/ upload_document
  \/ search_knowledge_base
  \/ delete_document
  \/ clear_knowledge_base
  \/ Return

SpecController == Init /\ [][NextController]_vars

\* ------------------------------------------------------------- two threads

\* Two request threads inside one RAGService, which takes no lock: each
\* statement of add_documents and of clear_knowledge_base that reads or
\* writes self.documents or self.vector_store is a step of its own, and the
\* steps of the two threads interleave in every order.

\* the metadata the caller on thread t gives its document
ThreadMeta(t) == [source |-> "caller", id |-> t]

\* the chunks of the adds under way that are yet to reach the inventory
PendingInventory ==
  SumSeq([t \in Threads |->
            IF threads[t].pc = "extend" THEN Len(threads[t].chunked_docs)
            ELSE 0])

\* the chunks of the adds under way that are yet to reach the index
PendingIndex ==
  SumSeq([t \in Threads |->
            IF threads[t].pc \in {"extend", "test", "from_documents",
                                  "index_add"}
            THEN Len(threads[t].chunked_docs) ELSE 0])

\* add_documents up to chunked_docs: the thread's own documents and chunks
thread_add_documents ==
  /\ \E t \in Threads, text \in Texts :
       LET chunked_docs == ChunkAll(ValidDocs(<< text >>, << ThreadMeta(t) >>))
       IN  /\ threads[t].pc = "idle"
           /\ Len(documents) + PendingInventory + Len(chunked_docs)
                <= MaxChunks
           /\ Len(vector_store.docs) + PendingIndex + Len(chunked_docs)
                <= MaxChunks
           /\ threads' =
                [threads EXCEPT
                   ![t] = [pc |-> IF chunked_docs = <<>> THEN "done"
                                  ELSE "extend",
                           op |-> "add_documents",
                           chunked_docs |-> chunked_docs,
                           logged |-> "none"]]
  /\ UNCHANGED << service_vars, embedder_vars, controller_vars >>

\* self.documents.extend(chunked_docs)
thread_extend ==
  /\ \E t \in Threads :
       /\ threads[t].pc = "extend"
       /\ documents' = ExtendedInventory(documents, threads[t].chunked_docs)
       /\ threads' = [threads EXCEPT ![t].pc = "test"]
  /\ UNCHANGED << embeddings, vector_store, disk, next_uuid, call, ret,
                  context, pc, grc_locals, index_epoch, pre >>
  /\ UNCHANGED << embedder_vars, controller_vars >>

\* if self.vector_store is None
thread_test ==
  /\ \E t \in Threads :
       /\ threads[t].pc = "test"
       /\ threads' = [threads EXCEPT
                        ![t].pc = IF ~vector_store.present
                                  THEN "from_documents" ELSE "index_add"]
  /\ UNCHANGED << service_vars, embedder_vars, controller_vars >>

\* self.vector_store = FAISS.from_documents(chunked_docs, self.embeddings)
thread_from_documents ==
  /\ \E t \in Threads :
       /\ threads[t].pc = "from_documents"
       /\ vector_store' = Store(threads[t].chunked_docs)
       /\ threads' = [threads EXCEPT ![t].pc = "done"]
  /\ index_epoch' = "filled"
  /\ UNCHANGED << embeddings, documents, disk, next_uuid, call, ret, context,
                  pc, grc_locals, pre >>
  /\ UNCHANGED << embedder_vars, controller_vars >>

\* self.vector_store.add_documents(chunked_docs): the attribute is read
\* again, and what it raises is logged by `except Exception`
thread_index_add ==
  /\ \E t \in Threads :
       /\ threads[t].pc = "index_add"
       /\ IF ~vector_store.present
          THEN /\ threads' = [threads EXCEPT ![t].pc = "done",
                                             ![t].logged = "AttributeError"]
               /\ UNCHANGED vector_store
          ELSE IF IndexRejects(vector_store)
          THEN /\ threads' = [threads EXCEPT ![t].pc = "done",
                                             ![t].logged = "AssertionError"]
               /\ UNCHANGED vector_store
          ELSE /\ threads' = [threads EXCEPT ![t].pc = "done"]
               /\ vector_store' =
                    InsertedStore(vector_store, threads[t].chunked_docs)
  /\ UNCHANGED << embeddings, documents, disk, next_uuid, call, ret, context,
                  pc, grc_locals, index_epoch, pre >>
  /\ UNCHANGED << embedder_vars, controller_vars >>

\* clear_knowledge_base entered: self.documents.clear()
thread_clear_documents ==
  /\ \E t \in Threads :
       /\ threads[t].pc = "idle"
       /\ threads' = [threads EXCEPT
                        ![t] = [NoThread EXCEPT
                                  !.pc = "clear_store",
                                  !.op = "clear_knowledge_base"]]
  /\ documents' = <<>>
  /\ UNCHANGED << embeddings, vector_store, disk, next_uuid, call, ret,
                  context, pc, grc_locals, index_epoch, pre >>
  /\ UNCHANGED << embedder_vars, controller_vars >>

\* self.vector_store = None
thread_clear_store ==
  /\ \E t \in Threads :
       /\ threads[t].pc = "clear_store"
       /\ threads' = [threads EXCEPT ![t].pc = "done"]
  /\ vector_store' = ClearedStore
  /\ index_epoch' = "cleared"
  /\ UNCHANGED << embeddings, documents, disk, next_uuid, call, ret, context,
                  pc, grc_locals, pre >>
  /\ UNCHANGED << embedder_vars, controller_vars >>

\* both calls have returned; their callers go on to the next two
threads_return ==
  /\ \A t \in Threads : threads[t].pc = "done"
  /\ threads' = [t \in Threads |-> NoThread]
  /\ pre' = Snapshot
  /\ UNCHANGED << embeddings, kb, disk, next_uuid, call, ret, context, pc,
                  grc_locals, index_epoch >>
  /\ UNCHANGED << embedder_vars, controller_vars >>

NextConcurrent ==
  \/ thread_add_documents
  \/ thread_extend
  \/ thread_test
  \/ thread_from_documents
  \/ thread_index_add
  \/ thread_clear_documents
  \/ thread_clear_store
  \/ threads_return

SpecConcurrent == Init /\ [][NextConcurrent]_vars

\* ================================================================ claims

Searches == {"similarity_search", "similarity_search_with_score"}

\* the call gave no metadatas, or as many as texts
ArityOk == ~call.metadatas.given
           \/ Len(call.metadatas.list) = Len(call.texts)

\* the metadata add_documents pairs with the n-th text of the call
MetaOf(n) ==
  IF call.metadatas.given
  THEN call.metadatas.list[n]
  ELSE GeneratedMeta(next_uuid - Len(call.texts) + n)

\* the chunks of the call's non-blank texts, each with its text's metadata
RECURSIVE ChunksOfWords(_)
ChunksOfWords(n) ==
  IF n = 0 THEN <<>>
  ELSE ChunksOfWords(n - 1)
       \o (IF call.texts[n].kind = "word"
           THEN split_documents([page_content |-> call.texts[n],
                                 metadata |-> MetaOf(n)])
           ELSE <<>>)

\* C1: after add_documents([t1..tn]) with every ti non-blank,
\* get_document_count() is its value before the call plus the number of
\* chunks the splitter makes of t1..tn, not plus n.
C1_CountGrowsByChunks ==
  (/\ call.op = "add_documents"
   /\ ArityOk
   /\ \A j \in 1..Len(call.texts) : call.texts[j].kind = "word")
  => get_document_count =
       Len(pre.documents)
       + SumSeq([j \in 1..Len(call.texts) |-> Len(split_text(call.texts[j]))])

\* one text of 1001 characters was added and the count grew by 2
C1_Witness ==
  /\ call.op = "add_documents"
  /\ call.texts = << Word(1001) >>
  /\ ArityOk
  /\ get_document_count = Len(pre.documents) + 2

\* C2: similarity_search and similarity_search_with_score return an empty
\* sequence, without using the embedder or the index, on a service freshly
\* constructed or cleared, and for a blank query or k <= 0 whatever the
\* index holds.
C2_EmptySearchWithoutBackend ==
  (/\ call.op \in Searches
   /\ \/ index_epoch \in {"fresh", "cleared"}
      \/ call.query.kind = "blank"
      \/ call.k <= 0)
  => /\ ret = <<>>
     /\ ~call.backend
     /\ call.raised = "none"

\* a search with a non-blank query and k <= 0 over a filled index
C2_Witness ==
  /\ call.op \in Searches
  /\ call.k <= 0
  /\ call.query.kind = "word"
  /\ vector_store.present
  /\ ret = <<>>

\* C3: clear_knowledge_base() leaves get_document_count() = 0 and no index,
\* and from then until an add fills the index or a load replaces it every
\* similarity search returns [].
C3_ClearEmptiesUntilRefill ==
  /\ call.op = "clear_knowledge_base"
       => get_document_count = 0 /\ ~vector_store.present
  /\ index_epoch = "cleared" => ~vector_store.present
  /\ (index_epoch = "cleared" /\ call.op \in Searches)
       => ret = <<>> /\ call.raised = "none"

\* a search for a non-blank query, k >= 1, after a clear of a knowledge base
\* whose index had been saved
C3_Witness ==
  /\ index_epoch = "cleared"
  /\ call.op = "similarity_search"
  /\ call.query.kind = "word"
  /\ call.k >= 1
  /\ disk["p1"].present

\* C4: in add_documents a None, empty or whitespace-only text is skipped
\* without failing the call, and the chunks of every other text of the call
\* are appended to the inventory and (the backend not failing) to the index.
C4_BadItemDoesNotBlock ==
  (/\ call.op = "add_documents"
   /\ ArityOk
   /\ \E j \in 1..Len(call.texts) : call.texts[j].kind # "word"
   /\ \E j \in 1..Len(call.texts) : call.texts[j].kind = "word")
  => /\ call.raised = "none"
     /\ documents = pre.documents \o ChunksOfWords(Len(call.texts))
     /\ call.logged = "none"
          => vector_store = Store(pre.vector_store.docs
                                  \o ChunksOfWords(Len(call.texts)))

\* a batch whose first text was skipped and whose second was inserted
C4_Witness ==
  /\ call.op = "add_documents"
  /\ Len(call.texts) = 2
  /\ call.texts[1].kind # "word"
  /\ call.texts[2].kind = "word"
  /\ ArityOk
  /\ Len(documents) > Len(pre.documents)
  /\ vector_store.present

\* C5: add_documents with no text, or only None, empty and whitespace-only
\* texts, changes neither the inventory, the count nor the index (present
\* or absent), and raises nothing.
C5_AllSkippedIsNoOp ==
  (/\ call.op = "add_documents"
   /\ \A j \in 1..Len(call.texts) : call.texts[j].kind # "word")
  => /\ documents = pre.documents
     /\ vector_store = pre.vector_store
     /\ call.raised = "none"

\* two skipped texts, one of them whitespace-only, given to a filled service
C5_Witness ==
  /\ call.op = "add_documents"
  /\ Len(call.texts) = 2
  /\ call.texts[1] = Blank(2)
  /\ call.texts[2].kind # "word"
  /\ pre.vector_store.present
  /\ Len(documents) > 0

\* C6: add_documents with metadatas of another length than texts fails with
\* an error the caller sees, and leaves inventory and index unchanged.
C6_ArityMismatchRaises ==
  (/\ call.op = "add_documents"
   /\ call.metadatas.given
   /\ Len(call.metadatas.list) # Len(call.texts))
  => /\ call.raised = "ValueError"
     /\ documents = pre.documents
     /\ vector_store = pre.vector_store

\* C7: add_document_from_text(None, metadata) raises TypeError or ValueError
\* to the caller and leaves the knowledge base as it was.
C7_NoneTextRaises ==
  (/\ call.op = "add_document_from_text"
   /\ call.texts = << NoneText >>)
  => /\ call.raised \in {"TypeError", "ValueError"}
     /\ documents = pre.documents
     /\ vector_store = pre.vector_store

\* C8: similarity_search(q, k) returns at most max(k, 0) hits and at most
\* get_document_count() hits.
C8_HitsBoundedByKAndCount ==
  (call.op = "similarity_search" /\ call.raised = "none")
  => /\ Len(ret) <= Max(call.k, 0)
     /\ Len(ret) <= get_document_count

\* the token estimates of the segments s[1..n]
TokenSum(s, n) == SumSeq([j \in 1..n |-> Tokens(s[j])])

\* get_relevant_context is at a turn of its loop, or past it with hits seen
InLoop == \/ pc = "grc_loop" /\ i <= Len(docs)
          \/ pc = "grc_join" /\ docs # <<>>

\* the hits before hit i were accepted in full, in ranked order, and
\* current_tokens is their token estimate
AcceptedPrefix ==
  /\ i - 1 <= Len(context_parts)
  /\ Len(context_parts) <= i
  /\ \A j \in 1..(i - 1) : context_parts[j] = docs[j].page_content
  /\ current_tokens = TokenSum(context_parts, i - 1)

\* C9 as stated: the hits are consumed in ranked order, a prefix of them is
\* accepted, and at every turn of the loop the running token estimate is
\* <= max_tokens.
C9_RunningEstimateWithinBudget ==
  InLoop => /\ AcceptedPrefix
            /\ current_tokens <= call.max_tokens
            /\ TokenSum(context_parts, Len(context_parts)) <= call.max_tokens

\* C9 for max_tokens >= 0: the hits are consumed in ranked order, a prefix
\* of them is accepted in full, and the running token estimate, also that
\* of all accepted segments, is <= max_tokens at every turn of the loop.
C9_WithinNonNegativeBudget ==
  InLoop => /\ AcceptedPrefix
            /\ call.max_tokens >= 0
                 => /\ current_tokens <= call.max_tokens
                    /\ TokenSum(context_parts, Len(context_parts))
                         <= call.max_tokens

\* the second turn of the loop, the first hit accepted in full
C9_Witness ==
  /\ pc = "grc_loop"
  /\ i = 2
  /\ Len(docs) = 2
  /\ current_tokens > 0
  /\ call.max_tokens >= 0

\* the first hit of hs whose token estimate, added to those before it,
\* exceeds max_tokens; Len(hs) + 1 when all fit
FirstOverflow(hs, max_tokens) ==
  LET contents == [j \in 1..Len(hs) |-> hs[j].page_content]
      over == { j \in 1..Len(hs) : TokenSum(contents, j) > max_tokens }
  IN  IF over = {} THEN Len(hs) + 1
      ELSE CHOOSE j \in over : \A m \in over : j <= m

\* C10: at the first hit that would exceed the budget, its first
\* (max_tokens - running) * 4 characters are appended if that number is
\* > 100 and nothing otherwise, and no later hit is included.
C10_StopsAtFirstOverflow ==
  pc = "grc_join" =>
    LET contents == [j \in 1..Len(docs) |-> docs[j].page_content]
        b == FirstOverflow(docs, call.max_tokens)
        full == SubSeq(contents, 1, b - 1)
        remaining == (call.max_tokens - TokenSum(contents, b - 1)) * 4
    IN  IF b > Len(docs)
        THEN context_parts = full
        ELSE IF remaining > 100
        THEN /\ Len(context_parts) = b
             /\ SubSeq(context_parts, 1, b - 1) = full
             /\ context_parts[b] = Slice(contents[b], 0, remaining)
             /\ context_parts[b].len = remaining
        ELSE context_parts = full

\* the first hit overflowed and gave a prefix; the second, small enough
\* for the budget, was left out
C10_Witness ==
  /\ pc = "grc_join"
  /\ Len(docs) = 2
  /\ Tokens(docs[1].page_content) > call.max_tokens
  /\ Tokens(docs[2].page_content) <= call.max_tokens
  /\ Len(context_parts) = 1

\* get_relevant_context has returned a string to its caller
ContextReturned ==
  /\ call.op = "get_relevant_context"
  /\ pc = "return"
  /\ call.raised = "none"

C12_MonotoneInBudget ==
  ContextReturned =>
    \A m \in MaxTokens :
      LET other == JoinLen(ContextPartsFrom(docs, 1, <<>>, 0, m))
      IN  /\ call.max_tokens <= m => JoinLen(context) <= other
          /\ m <= call.max_tokens => other <= JoinLen(context)

\* a call that returned one whole hit and a prefix of the next, where a
\* smaller budget gives a shorter prefix and a larger one both hits whole
C12_Witness ==
  /\ ContextReturned
  /\ Len(docs) = 2
  /\ Len(context) = 2
  /\ context[2].len < docs[2].page_content.len
  /\ \E m \in MaxTokens :
       /\ m < call.max_tokens
       /\ JoinLen(ContextPartsFrom(docs, 1, <<>>, 0, m)) < JoinLen(context)
  /\ \E m \in MaxTokens :
       /\ m > call.max_tokens
       /\ JoinLen(ContextPartsFrom(docs, 1, <<>>, 0, m)) > JoinLen(context)

Adds == {"add_documents", "add_document_from_text"}

\* C13: an insertion through add_documents whose vectors have another
\* length than the index's (as after load_vector_store replaced the index)
\* raises DimensionMismatch and leaves get_document_count() and the
\* index's entries unchanged.
C13_DimensionMismatchRaises ==
  (/\ call.op \in Adds
   /\ ArityOk
   /\ \E j \in 1..Len(call.texts) : call.texts[j].kind = "word"
   /\ call.logged # "BackendError"
   /\ pre.vector_store.present
   /\ pre.vector_store.dim # embedding_dim)
  => /\ call.raised = "DimensionMismatch"
     /\ get_document_count = Len(pre.documents)
     /\ vector_store = pre.vector_store

\* C14: the embedder chosen at construction is never replaced, and the
\* index, whether built by an add or read by a load, after failed calls
\* too, embeds queries with the embedder that embeds the chunks.
C14_OneEmbedder ==
  [][/\ embeddings' = embeddings
     /\ vector_store'.present => vector_store'.embedder = embeddings']_vars

\* a search used the backend on an index read back by load_vector_store,
\* after an add whose embedding had failed
C14_Witness ==
  /\ call.op \in Searches
  /\ call.backend
  /\ embeddings = "primary"
  /\ vector_store.present
  /\ vector_store.embedder = "primary"
  /\ disk["p1"].present
  /\ Len(documents) > Len(vector_store.docs)

\* C15: the fallback embedder never fails and gives every string, the empty
\* and the whitespace-only ones too, one vector of 384 numbers: whatever was
\* embedded in between, through embed_query or embed_documents, the vector
\* of a string is the vector it got the first time.
C15_FallbackDeterministicTotal ==
  embed_call.op # "none" =>
    /\ embed_call.raised = "none"
    /\ Len(embed_call.vectors) = Len(embed_call.texts)
    /\ \A j \in 1..Len(embed_call.vectors) :
         /\ embed_call.vectors[j].dim = 384
         /\ embed_call.vectors[j] = first_vector[embed_call.texts[j]]

\* embed_documents embedded the empty string again, after another string
\* of the same call and after an earlier call had embedded it
C15_Witness ==
  /\ embed_call.op = "embed_documents"
  /\ Len(embed_call.texts) = 2
  /\ embed_call.texts[1] = << " ", "a" >>
  /\ embed_call.texts[2] = <<>>
  /\ np_random.stream = 0
  /\ first_vector[<< "A" >>] # NoVector

\* C16: add_document_from_text(text, metadata) and
\* add_documents([text], [metadata]) leave, of one starting state, the same
\* inventory and the same index: the starting ones plus the chunks of the
\* text under that metadata; with the metadata omitted every chunk of the
\* text carries the one {source: generated id} mapping made for the call,
\* which no earlier chunk carries.
C16_FromTextIsSingletonAdd ==
  (/\ call.op \in Adds
   /\ Len(call.texts) = 1
   /\ call.op = "add_documents"
        => call.metadatas.given /\ Len(call.metadatas.list) = 1)
  => LET new == ChunksOfWords(1)
     IN  /\ call.raised = "none"
         /\ documents = pre.documents \o new
         /\ vector_store =
              IF new = <<>> \/ call.logged # "none" THEN pre.vector_store
              ELSE Store(pre.vector_store.docs \o new)
         /\ (call.op = "add_document_from_text" /\ ~call.metadatas.given)
              => /\ \A j \in 1..Len(new) :
                      new[j].metadata = GeneratedMeta(next_uuid)
                 /\ \A j \in 1..Len(pre.documents) :
                      pre.documents[j].metadata # GeneratedMeta(next_uuid)

\* a text of two chunks added without metadata: both chunks, in inventory
\* and index, carry the generated mapping
C16_Witness ==
  /\ call.op = "add_document_from_text"
  /\ ~call.metadatas.given
  /\ call.texts = << Word(1001) >>
  /\ Len(documents) = Len(pre.documents) + 2
  /\ vector_store.present
  /\ documents[Len(documents)].metadata = GeneratedMeta(next_uuid)

ToolCalls == {"rag_search_function", "RAGSearchTool.search"}

\* C17: rag_search_function and RAGSearchTool.search raise nothing: an
\* error of the service's construction or of similarity_search comes back
\* as the string 'Erro ao buscar na base de conhecimento: <message>', an
\* empty hit list as the fixed no-information message, and hits as one
\* 'Fonte' part per hit.
C17_ToolNeverRaises ==
  call.op \in ToolCalls =>
    /\ call.raised = "none"
    /\ call.logged # "none"
         => /\ ret.kind = "Erro ao buscar"
            /\ ret.message = call.logged
    /\ (call.logged = "none" /\ docs = <<>>)
         => ret.kind = "Nenhuma informacao"
    /\ (call.logged = "none" /\ docs # <<>>)
         => /\ ret.kind = "Fontes"
            /\ Len(ret.parts) = Len(docs)

\* the search of a filled service raised on a query that is no str, and
\* the tool returned the error string
C17_Witness ==
  /\ call.op = "RAGSearchTool.search"
  /\ call.query = NoneText
  /\ vector_store.present
  /\ call.logged = "AttributeError"
  /\ ret.kind = "Erro ao buscar"

\* C18: load_vector_store(path) with nothing at the path raises nothing
\* and leaves index, inventory and filesystem as they were, and so does
\* save_vector_store(path) of a service without index.
C18_MissingPathOrIndexIsNoOp ==
  /\ (call.op = "load_vector_store" /\ ~pre.disk[call.path].present)
       => /\ call.raised = "none"
          /\ vector_store = pre.vector_store
          /\ documents = pre.documents
          /\ disk = pre.disk
  /\ (call.op = "save_vector_store" /\ ~pre.vector_store.present)
       => /\ call.raised = "none"
          /\ vector_store = pre.vector_store
          /\ documents = pre.documents
          /\ disk = pre.disk

\* a load from a path nothing was saved to, by a service that holds an
\* index and chunks
C18_Witness ==
  /\ call.op = "load_vector_store"
  /\ ~pre.disk[call.path].present
  /\ pre.vector_store.present
  /\ Len(documents) > 0

\* a text shorter than chunk_size was given to add_document_from_text
ShortTextAdded ==
  /\ call.op = "add_document_from_text"
  /\ call.texts[1].kind # "None"
  /\ call.texts[1].len < chunk_size

\* C19 as stated: a non-empty text shorter than chunk_size adds one to
\* get_document_count(), and the chunk added is the whole text.
C19_ShortTextIsOneWholeChunk ==
  (ShortTextAdded /\ call.texts[1].len > 0)
  => /\ get_document_count = Len(pre.documents) + 1
     /\ documents[Len(documents)].page_content = call.texts[1]

\* C19 as the code has it: a text shorter than chunk_size that is not
\* blank adds one to get_document_count(), and the chunk added is the text
\* without the whitespace at its ends, the whole text when it has none; a
\* whitespace-only text adds nothing.
C19_ShortTextIsOneStrippedChunk ==
  ShortTextAdded =>
    LET text == call.texts[1]
    IN  /\ text.kind = "blank" => documents = pre.documents
        /\ text.kind = "word"
             => /\ get_document_count = Len(pre.documents) + 1
                /\ documents[Len(documents)].page_content = text
        /\ text.kind = "padded"
             => /\ get_document_count = Len(pre.documents) + 1
                /\ documents[Len(documents)].page_content = Word(text.src)
                /\ documents[Len(documents)].page_content.len < text.len

\* a text of 55 characters between two leading and one trailing whitespace
\* character was added to a service that held a chunk
C19_Witness ==
  /\ ShortTextAdded
  /\ call.texts[1] = Padded(2, 55, 1)
  /\ Len(pre.documents) = 1
  /\ get_document_count = 2
  /\ documents[2].page_content = Word(55)

C24_CountIsIndexEntries ==
  /\ get_document_count = Len(vector_store.docs)
  /\ ~vector_store.present <=> get_document_count = 0

\* C25: an add_documents whose embedding or index insertion fails leaves
\* count, inventory and index as it found them.
C25_FailedAddIsAtomic ==
  (call.op \in Adds /\ call.logged \in {"BackendError", "AssertionError"})
  => /\ get_document_count = Len(pre.documents)
     /\ documents = pre.documents
     /\ vector_store = pre.vector_store

\* C28: a call with a non-blank query of the rag_search tool that the
\* agent hands to its LLM searches the service the agent adds to: when
\* that service holds an index and nothing fails, the tool returns hits.
C28_AgentToolSearchesItsService ==
  (/\ call.op \in AgentTools
   /\ call.query.kind = "word"
   /\ vector_store.present
   /\ call.logged = "none")
  => /\ docs # <<>>
     /\ ret.kind = "Fontes"

\* the chunks of document `document_id` among the entries ds
ChunksOfDocument(ds, document_id) ==
  { n \in 1..Len(ds) : ds[n].metadata.doc_id = << "id", document_id >> }

\* an upload the controller let through
Uploaded == request.op = "upload_document" /\ request.raised = "none"

\* C21: upload_document hands the knowledge base the caller's text and the
\* caller's metadata mapping as they were supplied: the mapping that reaches
\* the service has the caller's keys and values and no other, and the
\* caller's own mapping object is after the call what it was before it.
C21_MetadataPassedUnchanged ==
  Uploaded
  => LET supplied == IF request.json_metadata.none THEN EmptyMapping
                     ELSE request.json_metadata.map
     IN  /\ call.texts = << request.text >>
         /\ DOMAIN request.passed = DOMAIN supplied
         /\ \A key \in DOMAIN supplied : request.passed[key] = supplied[key]
         /\ json_metadata.none = request.json_metadata.none
         /\ DOMAIN json_metadata.map = DOMAIN request.json_metadata.map

\* C22: no two stored documents share a content hash, and an upload whose
\* content hash a stored document already has raises ValueError with the
\* table as it was, the RAG service never called and the knowledge base as
\* it was.
C22_DuplicateContentRejected ==
  /\ \A a, b \in 1..Len(db) :
       a # b => db[a].str_content_hash # db[b].str_content_hash
  /\ (/\ request.op = "upload_document"
      /\ \E j \in 1..Len(db_pre) :
           db_pre[j].str_content_hash = content_hash(request.text))
     => /\ request.raised = "ValueError"
        /\ db = db_pre
        /\ call.op = "__init__"
        /\ documents = pre.documents
        /\ vector_store = pre.vector_store

\* a duplicate upload was rejected while the knowledge base held the chunks
\* of the stored document
C22_Witness ==
  /\ request.op = "upload_document"
  /\ request.raised = "ValueError"
  /\ Len(db) >= 1
  /\ vector_store.present
  /\ ChunksOfDocument(vector_store.docs, db[1].id) # {}

\* C29: the document an upload stored is marked processed only if its
\* content was inserted into the knowledge base: a chunk of it is in the
\* index.
C29_ProcessedOnlyIfIngested ==
  Uploaded
  => \A j \in 1..Len(db) :
       (db[j].id = request.document_id /\ db[j].dt_processed_at)
       => ChunksOfDocument(vector_store.docs, db[j].id) # {}

\* C30: after delete_document(document_id) succeeded the index holds no
\* chunk whose doc_id is document_id, so no search returns one, and the
\* inventory get_document_count counts holds none either.
C30_DeletedDocumentLeavesIndex ==
  (request.op = "delete_document" /\ request.raised = "none")
  => /\ ChunksOfDocument(vector_store.docs, request.document_id) = {}
     /\ ChunksOfDocument(documents, request.document_id) = {}

\* both calls of the two threads have completed
BothDone == \A t \in Threads : threads[t].pc = "done"

\* the entries of ds that the call of thread t produced
ChunksOfThread(ds, t) == { n \in 1..Len(ds) : ds[n].metadata.id = t }

\* C26: when two add_documents calls on one service have both completed,
\* however their steps interleaved, the index holds what it held before
\* them and the chunks of both, and get_document_count() is the number of
\* index entries.
C26_NoLostUpdate ==
  (/\ BothDone
   /\ \A t \in Threads : /\ threads[t].op = "add_documents"
                         /\ threads[t].logged = "none")
  => /\ Len(vector_store.docs)
          = Len(pre.vector_store.docs)
            + SumSeq([t \in Threads |-> Len(threads[t].chunked_docs)])
     /\ \A t \in Threads :
          threads[t].chunked_docs # <<>>
          => ChunksOfThread(vector_store.docs, t) # {}
     /\ get_document_count = Len(vector_store.docs)

\* C27: when a clear_knowledge_base and an add_documents on one service
\* have both completed, the knowledge base is empty with the index absent,
\* or inventory and index both hold exactly the added chunks.
C27_ClearAndAddSerialize ==
  (/\ BothDone
   /\ \E t, u \in Threads : /\ threads[t].op = "clear_knowledge_base"
                            /\ threads[u].op = "add_documents"
                            /\ threads[u].chunked_docs # <<>>)
  => LET u == CHOOSE v \in Threads : threads[v].op = "add_documents"
     IN  \/ get_document_count = 0 /\ ~vector_store.present
         \/ /\ documents = threads[u].chunked_docs
            /\ vector_store.present
            /\ vector_store.docs = threads[u].chunked_docs

====
